---- MODULE Spec2Model ----
(***************************************************************************)
(* Attempt lifecycle and scoring (backend/assessment_service/index.js) and *)
(* proctoring sessions (backend/proctor_service/index.js).                 *)
(*                                                                         *)
(* Every route handler is an async function: it runs from one `await` to   *)
(* the next without interruption, and other requests run in between.  An   *)
(* action of this model is one such stretch: a database operation together *)
(* with the synchronous code that follows it up to the next database       *)
(* operation.  No route updates an Assessment, and the runs take no        *)
(* PUT /api/questions/:id, so the reads of the Assessment and Question     *)
(* documents are folded into the stretch that uses them; StartAttempt      *)
(* reads the clock once, for its window check and for the attempt's        *)
(* startTime.                                                              *)
(*                                                                         *)
(* `doc.save()` on a document loaded with findById is mongoose's update of *)
(* the modified paths only ($set of the paths whose value differs from the *)
(* loaded one, $push for an array push).  A $set below an array index      *)
(* (answers.<i>.<field>) adds the loaded version __v to the update's       *)
(* filter; a $push, or a $set of an array value, increments __v.  An       *)
(* update whose filter matches nothing makes save() throw, and the handler *)
(* answers 500.  Instead of the number __v, a request records whether the  *)
(* stored __v has moved since it loaded the document (stale).              *)
(*                                                                         *)
(* resp and presp hold the last response each service gave; graded is a    *)
(* history variable: the grade each slot held right after every successful *)
(* answer submission, with the answer submitted and the number of requests *)
(* sent by then.                                                           *)
(*                                                                         *)
(* faulty tells whether the collaborators of the run (the redis cache, the *)
(* kafka producer) may reject a command; it is fixed at the start.         *)
(*                                                                         *)
(* Times are milliseconds since the epoch of the run.  anomalyScore is in  *)
(* tenths (0.2 -> 2, 0.5 -> 5, 1.0 -> 10).                                 *)
(***************************************************************************)
EXTENDS Integers, Sequences, FiniteSets, Bags, TLC

VARIABLES now, faulty, assessment, attempts, cache, inflight, resp, sent, graded,
          sessions, events, pinflight, presp, psent

avars == <<assessment, attempts, cache, inflight, resp, sent, graded>>
pvars == <<sessions, events, pinflight, presp, psent>>
vars == <<now, faulty, assessment, attempts, cache, inflight, resp, sent, graded,
          sessions, events, pinflight, presp, psent>>

(***************************************************************************)
(* Bounds                                                                  *)
(***************************************************************************)
\* clock ticks the run may take
MaxTicks == 2
\* requests the clients of the assessment service send in a run, when the
\* requests overlap and when they run one after another
MaxRequests == 3
MaxSeqRequests == 4
\* requests the clients of the proctor service send in a run
MaxPRequests == 3

\* one clock tick, in milliseconds
TickMs == 60 * 1000

\* an absent Date or Number (undefined)
NoTime == 0 - 1

\* req.user.userId of the requests: a candidate, and another account
Users == {"u1", "u2"}
\* the users who take the assessment
Candidates == {"u1"}

(***************************************************************************)
(* Question collection                                                     *)
(***************************************************************************)
Opt(id, isCorrect) == [id |-> id, isCorrect |-> isCorrect]

Question ==
  [q1 |-> [type |-> "single-choice", points |-> 5,
           options |-> <<Opt("a", FALSE), Opt("b", TRUE)>>],
   q2 |-> [type |-> "multiple-choice", points |-> 2,
           options |-> <<Opt("a", TRUE), Opt("b", TRUE), Opt("c", FALSE)>>],
   q3 |-> [type |-> "true-false", points |-> 1,
           options |-> <<Opt("true", TRUE), Opt("false", FALSE)>>],
   q4 |-> [type |-> "essay", points |-> 3, options |-> <<>>],
   q5 |-> [type |-> "single-choice", points |-> 1,
           options |-> <<Opt("a", FALSE), Opt("b", FALSE)>>],
   q6 |-> [type |-> "coding", points |-> 4, options |-> <<>>],
   q7 |-> [type |-> "fill-in-the-blank", points |-> 2, options |-> <<>>]]

QuestionIds == DOMAIN Question

\* req.body.answer: an array of option ids, or one value
Arr(s) == [isArray |-> TRUE, val |-> s]
Val(v) == [isArray |-> FALSE, val |-> <<v>>]
NoAnswer == [isArray |-> FALSE, val |-> <<>>]

\* the answers a client sends for a question
AnswerChoices(q) ==
  CASE q = "q1" -> {Val("a"), Val("b")}
    [] q = "q2" -> {Arr(<<"b", "a">>), Arr(<<"a">>), Arr(<<"a", "a">>),
                    Arr(<<"a", "b", "c">>), Arr(<<"a", "b", "a">>)}
    [] q = "q3" -> {Val("true"), Val("false")}
    [] q \in {"q4", "q6", "q7"} -> {Val("text")}
    [] OTHER -> {Val("a")}

(***************************************************************************)
(* Assessment collection: POST /api/assessments                            *)
(***************************************************************************)
RECURSIVE SumPoints(_)
SumPoints(questions) ==
  IF questions = <<>> THEN 0
  ELSE Head(questions).points + SumPoints(Tail(questions))

\* let totalPoints = 0; for (const q of questions) totalPoints += q.points || 0
TotalPoints(questions) == SumPoints(questions)

CreateAssessment(body) ==
  [duration |-> body.duration,
   totalPoints |-> TotalPoints(body.questions),
   passingScore |-> body.passingScore,
   questions |-> body.questions,
   randomizeQuestions |-> body.randomizeQuestions,
   allowedAttempts |-> body.allowedAttempts,
   startTime |-> body.startTime,
   endTime |-> body.endTime,
   status |-> body.status]

QP(q, p) == [question |-> q, points |-> p]

Body(questions, passingScore, allowedAttempts, randomize) ==
  [duration |-> 1, passingScore |-> passingScore, questions |-> questions,
   randomizeQuestions |-> randomize, allowedAttempts |-> allowedAttempts,
   startTime |-> NoTime, endTime |-> NoTime, status |-> "published"]

\* the request bodies the assessments of the runs are created from
AssessmentBodies ==
  {Body(<<QP("q1", 5)>>, 5, 1, FALSE),
   Body(<<QP("q2", 1)>>, 1, 1, FALSE),
   Body(<<QP("q3", 1), QP("q4", 3)>>, 2, 2, TRUE),
   Body(<<QP("q5", 1)>>, 0, 1, FALSE)}

\* req.body with an availability window and a status
Scheduled(body, startTime, endTime, status) ==
  [body EXCEPT !.startTime = startTime, !.endTime = endTime, !.status = status]

\* request bodies of assessments that are not published, or open for a while
ScheduleBodies ==
  {Scheduled(Body(<<QP("q1", 5)>>, 5, 1, FALSE), NoTime, NoTime, "draft"),
   Scheduled(Body(<<QP("q1", 5)>>, 5, 1, FALSE), NoTime, NoTime, "archived"),
   Scheduled(Body(<<QP("q1", 5)>>, 5, 2, FALSE), TickMs, 2 * TickMs, "published"),
   Scheduled(Body(<<QP("q1", 5)>>, 5, 1, FALSE), NoTime, TickMs, "published")}

\* the one document of the Assessment collection, and an id that resolves to none
AssessmentId == "A"
AssessmentIds == {"A", "X"}

(***************************************************************************)
(* Attempt documents                                                       *)
(***************************************************************************)
\* slots that start with the points of the assessment's question entry
NewSlotWithPoints(q) ==
  [question |-> q.question, answer |-> NoAnswer, isCorrect |-> "unset",
   points |-> q.points, timeSpent |-> NoTime]

\* answers: questions.map(q => ({ question: q.question, points: 0 }))
NewSlot(q) ==
  [question |-> q.question, answer |-> NoAnswer, isCorrect |-> "unset",
   points |-> 0, timeSpent |-> NoTime]

NewAttempt(u, questions, t) ==
  [assessment |-> AssessmentId,
   user |-> u,
   startTime |-> t,
   endTime |-> NoTime,
   completionTime |-> NoTime,
   answers |-> [i \in 1..Len(questions) |-> NewSlot(questions[i])],
   totalScore |-> 0,
   maxPossibleScore |-> assessment.totalPoints,
   status |-> "in-progress",
   proctorEvents |-> <<>>]

AttemptIds == 1..Len(attempts)

\* Attempt.countDocuments({ assessment, user })
AttemptCount(u) ==
  Cardinality({i \in AttemptIds :
                 attempts[i].assessment = AssessmentId /\ attempts[i].user = u})

\* the orders [...questions].sort(() => Math.random() - 0.5) may return
Shuffles(s) ==
  {[i \in 1..Len(s) |-> s[f[i]]] :
     f \in {g \in [1..Len(s) -> 1..Len(s)] :
              \A i, j \in 1..Len(s) : i # j => g[i] # g[j]}}

QuestionOrders ==
  IF assessment.randomizeQuestions THEN Shuffles(assessment.questions)
  ELSE {assessment.questions}

\* attempt.answers.findIndex(a => a.question.toString() === questionId), 0 for -1
AnswerIndex(answers, questionId) ==
  IF \E i \in 1..Len(answers) : answers[i].question = questionId
  THEN CHOOSE i \in 1..Len(answers) :
         /\ answers[i].question = questionId
         /\ \A j \in 1..(i - 1) : answers[j].question # questionId
  ELSE 0

(***************************************************************************)
(* Grading: POST /api/attempts/:id/answers                                 *)
(***************************************************************************)
Includes(seq, x) == \E i \in 1..Len(seq) : seq[i] = x

\* question.options.filter(o => o.isCorrect).map(o => o.id)
CorrectOptionIds(question) ==
  LET correct == SelectSeq(question.options, LAMBDA o : o.isCorrect)
  IN  [i \in 1..Len(correct) |-> correct[i].id]

\* Array.isArray(answer) && answer.length === correctOptionIds.length &&
\* answer.every(id => correctOptionIds.includes(id))
MultipleChoiceIsCorrect(question, answer) ==
  LET correctOptionIds == CorrectOptionIds(question)
  IN  /\ answer.isArray
      /\ Len(answer.val) = Len(correctOptionIds)
      /\ \A i \in 1..Len(answer.val) : Includes(correctOptionIds, answer.val[i])

\* a grading that takes the first option of the question for the correct one
FirstOptionIsCorrect(question, answer) ==
  IF ~answer.isArray /\ answer.val = <<Head(question.options).id>>
  THEN "true" ELSE "false"

\* const correctOption = question.options.find(o => o.isCorrect);
\* const isCorrect = correctOption && correctOption.id === answer;
\* "unset" is undefined: no option is flagged
SingleChoiceIsCorrect(question, answer) ==
  LET correct == SelectSeq(question.options, LAMBDA o : o.isCorrect)
  IN  IF correct = <<>> THEN "unset"
      ELSE IF ~answer.isArray /\ answer.val = <<Head(correct).id>> THEN "true"
      ELSE "false"

AutoGraded(question) ==
  question.type \in {"multiple-choice", "single-choice", "true-false"}

IsCorrect(question, answer) ==
  IF question.type = "multiple-choice"
  THEN IF MultipleChoiceIsCorrect(question, answer) THEN "true" ELSE "false"
  ELSE SingleChoiceIsCorrect(question, answer)

\* isCorrect ? question.points : 0
AwardedPoints(question, isCorrect) ==
  IF isCorrect = "true" THEN question.points ELSE 0

\* Math.floor((now - attempt.startTime) / 1000)
TimeSpent(t, startTime) == (t - startTime) \div 1000

\* a grading that adds the awarded points to those the slot already holds
AccumulatingSlot(slot, question, answer, timeSpent) ==
  [slot EXCEPT !.answer = answer,
               !.timeSpent = timeSpent,
               !.isCorrect = IsCorrect(question, answer),
               !.points = @ + AwardedPoints(question, IsCorrect(question, answer))]

\* the slot of the loaded document after the handler's assignments
UpdatedSlot(slot, question, answer, timeSpent) ==
  IF AutoGraded(question)
  THEN [slot EXCEPT !.answer = answer,
                    !.timeSpent = timeSpent,
                    !.isCorrect = IsCorrect(question, answer),
                    !.points = AwardedPoints(question, IsCorrect(question, answer))]
  ELSE [slot EXCEPT !.answer = answer, !.timeSpent = timeSpent]

SlotFields == {"answer", "isCorrect", "points", "timeSpent"}

\* mongoose: the paths of the slot whose value differs from the loaded one
DirtyFields(loaded, updated) == {f \in SlotFields : updated[f] # loaded[f]}

\* the update of save(): $set of the modified paths of answers.<i>
ApplySlot(stored, updated, dirty) ==
  [f \in DOMAIN stored |-> IF f \in dirty THEN updated[f] ELSE stored[f]]

\* new Date(attempt.startTime.getTime() + assessment.duration * 60000)
TimeLimit(startTime) == startTime + assessment.duration * 60000

\* a time check that already fires at the limit
TimedOutAtLimit(t, timeLimit) == t >= timeLimit

\* a time check that never fires
TimedOutNever(t, timeLimit) == FALSE

\* now > timeLimit
TimedOut(t, timeLimit) == t > timeLimit

RECURSIVE SumSlotPoints(_)
SumSlotPoints(answers) ==
  IF answers = <<>> THEN 0
  ELSE Head(answers).points + SumSlotPoints(Tail(answers))

\* attempt.answers.reduce((total, answer) => total + (answer.points || 0), 0)
TotalScore(answers) == SumSlotPoints(answers)

\* a pass mark read as a percentage of the assessment's totalPoints
PassedByPercent(totalScore, passingScore) ==
  (totalScore * 100) \div assessment.totalPoints >= passingScore

\* attempt.totalScore >= assessment.passingScore
Passed(totalScore, passingScore) == totalScore >= passingScore

(***************************************************************************)
(* Requests in flight and responses                                        *)
(***************************************************************************)
Add(r) == inflight (+) SetToBag({r})
Remove(r) == inflight (-) SetToBag({r})

RECURSIVE BagSum(_, _)
BagSum(B, S) ==
  IF S = {} THEN 0
  ELSE LET r == CHOOSE x \in S : TRUE
       IN  B[r] + BagSum(B, S \ {r})

\* a save() that incremented __v of attempt id: the documents of that attempt
\* loaded by the other requests no longer carry the stored version
Staled(B, id) ==
  LET Mark(r) == IF r.op = "answers" /\ r.id = id
                 THEN [r EXCEPT !.stale = TRUE] ELSE r
      T == {Mark(r) : r \in BagToSet(B)}
  IN  [t \in T |-> BagSum(B, {r \in BagToSet(B) : Mark(r) = t})]

\* a client sends one more request
Send(max) ==
  /\ sent < max
  /\ sent' = sent + 1

\* res.status(code).json({ message })
Reply(op, u, id, code, message) ==
  [op |-> op, user |-> u, id |-> id, code |-> code, message |-> message]

Tick ==
  /\ now < MaxTicks * TickMs
  /\ now' = now + TickMs
  /\ UNCHANGED <<faulty, avars, pvars>>

(***************************************************************************)
(* POST /api/assessments/:id/attempt                                       *)
(***************************************************************************)
\* Assessment.findById, the checks, Attempt.countDocuments, new Attempt(...)
StartAttemptCount(u, aid) ==
  /\ IF aid # AssessmentId
     THEN /\ resp' = Reply("attempt", u, 0, 404, "Assessment not found")
          /\ UNCHANGED inflight
     ELSE IF assessment.status # "published"
     THEN /\ resp' = Reply("attempt", u, 0, 400, "Assessment is not published")
          /\ UNCHANGED inflight
     ELSE IF assessment.startTime # NoTime /\ assessment.startTime > now
     THEN /\ resp' = Reply("attempt", u, 0, 400, "Assessment has not started yet")
          /\ UNCHANGED inflight
     ELSE IF assessment.endTime # NoTime /\ assessment.endTime < now
     THEN /\ resp' = Reply("attempt", u, 0, 400, "Assessment has already ended")
          /\ UNCHANGED inflight
     ELSE IF AttemptCount(u) >= assessment.allowedAttempts
     THEN /\ resp' = Reply("attempt", u, 0, 400, "Maximum attempts reached")
          /\ UNCHANGED inflight
     ELSE /\ \E questions \in QuestionOrders :
               inflight' = Add([op |-> "attempt", pc |-> "save",
                                doc |-> NewAttempt(u, questions, now)])
          /\ UNCHANGED resp
  /\ UNCHANGED <<now, faulty, assessment, attempts, cache, graded, pvars>>

\* attempt.save(), redis.set(`attempt_${attempt._id}`, ..., 'EX', ...), 201;
\* a redis.set that rejects lands in the catch, which answers 500
StartAttemptSave(r) ==
  /\ r.op = "attempt" /\ r.pc = "save"
  /\ attempts' = Append(attempts, r.doc)
  /\ \/ /\ cache' = cache \cup {Len(attempts) + 1}
        /\ resp' = Reply("attempt", r.doc.user, Len(attempts) + 1, 201,
                         "Assessment attempt started")
     \/ /\ faulty
        /\ UNCHANGED cache
        /\ resp' = Reply("attempt", r.doc.user, Len(attempts) + 1, 500,
                         "Server error")
  /\ inflight' = Remove(r)
  /\ UNCHANGED <<now, faulty, assessment, sent, graded, pvars>>

(***************************************************************************)
(* POST /api/attempts/:id/answers                                          *)
(***************************************************************************)
\* Attempt.findById and the checks of the loaded document; Assessment.findById
\* and the time check; findIndex, the assignments to the slot,
\* Question.findById and the grading
SubmitAnswerFind(u, id, questionId, answer) ==
  /\ IF id \notin AttemptIds
     THEN /\ resp' = Reply("answers", u, id, 404, "Attempt not found")
          /\ UNCHANGED inflight
     ELSE IF attempts[id].user # u
     THEN /\ resp' = Reply("answers", u, id, 403, "Permission denied")
          /\ UNCHANGED inflight
     ELSE IF attempts[id].status # "in-progress"
     THEN /\ resp' = Reply("answers", u, id, 400, "Attempt is already completed")
          /\ UNCHANGED inflight
     ELSE LET startTime == attempts[id].startTime
              timeLimit == TimeLimit(startTime)
              answerIndex == AnswerIndex(attempts[id].answers, questionId)
          IN  IF TimedOut(now, timeLimit)
              THEN /\ inflight' =
                        Add([op |-> "answers", pc |-> "saveTimeout", user |-> u,
                             id |-> id, questionId |-> questionId,
                             endTime |-> timeLimit,
                             completionTime |-> (timeLimit - startTime) \div 1000,
                             stale |-> FALSE])
                   /\ UNCHANGED resp
              ELSE IF answerIndex = 0
              THEN /\ resp' = Reply("answers", u, id, 400,
                                    "Question not found in this attempt")
                   /\ UNCHANGED inflight
              ELSE LET loaded == attempts[id].answers[answerIndex]
                       updated == UpdatedSlot(loaded, Question[questionId], answer,
                                              TimeSpent(now, startTime))
                       dirty == DirtyFields(loaded, updated)
                   IN  /\ inflight' =
                            Add([op |-> "answers", pc |-> "save", user |-> u,
                                 id |-> id, answerIndex |-> answerIndex,
                                 updated |-> updated, dirty |-> dirty,
                                 stale |-> FALSE])
                       /\ UNCHANGED resp
  /\ UNCHANGED <<now, faulty, assessment, attempts, cache, graded, pvars>>

\* a timeout save that also empties the answer slots
SubmitAnswerSaveTimeoutClearing(r) ==
  /\ r.op = "answers" /\ r.pc = "saveTimeout"
  /\ attempts' = [attempts EXCEPT ![r.id].status = "timed-out",
                                  ![r.id].endTime = r.endTime,
                                  ![r.id].completionTime = r.completionTime,
                                  ![r.id].answers =
                                     [i \in DOMAIN @ |-> NewSlot(@[i])]]
  /\ inflight' = Remove(r)
  /\ resp' = [op |-> "answers", user |-> r.user, id |-> r.id, code |-> 400,
              message |-> "Assessment time limit exceeded",
              questionId |-> r.questionId]
  /\ UNCHANGED <<now, faulty, assessment, cache, sent, graded, pvars>>

\* a timeout save that ends the attempt at the time of the save
SubmitAnswerSaveTimeoutAtCall(r) ==
  /\ r.op = "answers" /\ r.pc = "saveTimeout"
  /\ attempts' = [attempts EXCEPT ![r.id].status = "timed-out",
                                  ![r.id].endTime = now,
                                  ![r.id].completionTime =
                                     (now - attempts[r.id].startTime) \div 1000]
  /\ inflight' = Remove(r)
  /\ resp' = [op |-> "answers", user |-> r.user, id |-> r.id, code |-> 400,
              message |-> "Assessment time limit exceeded",
              questionId |-> r.questionId]
  /\ UNCHANGED <<now, faulty, assessment, cache, sent, graded, pvars>>

\* attempt.save() of the timed-out attempt, 400; the response is kept with the
\* questionId of the request it answers
SubmitAnswerSaveTimeout(r) ==
  /\ r.op = "answers" /\ r.pc = "saveTimeout"
  /\ attempts' = [attempts EXCEPT ![r.id].status = "timed-out",
                                  ![r.id].endTime = r.endTime,
                                  ![r.id].completionTime = r.completionTime]
  /\ inflight' = Remove(r)
  /\ resp' = [op |-> "answers", user |-> r.user, id |-> r.id, code |-> 400,
              message |-> "Assessment time limit exceeded",
              questionId |-> r.questionId]
  /\ UNCHANGED <<now, faulty, assessment, cache, sent, graded, pvars>>

\* a save that writes the whole answers array back: the call's own slot, and
\* every other slot as an empty one
SubmitAnswerSaveWholeArray(r) ==
  /\ r.op = "answers" /\ r.pc = "save"
  /\ attempts' =
       [attempts EXCEPT ![r.id].answers =
          [i \in DOMAIN @ |-> IF i = r.answerIndex THEN r.updated
                              ELSE NewSlot(@[i])]]
  /\ inflight' = Remove(r)
  /\ resp' = Reply("answers", r.user, r.id, 200, "Answer submitted successfully")
  /\ graded' = graded \cup
       {[call |-> sent, id |-> r.id, answerIndex |-> r.answerIndex,
         answer |-> r.updated.answer,
         isCorrect |-> r.updated.isCorrect, points |-> r.updated.points]}
  /\ UNCHANGED <<now, faulty, assessment, cache, sent, pvars>>

\* attempt.save() of the answered slot, 200; a save() whose version filter
\* matches no document throws, and the catch answers 500
SubmitAnswerSave(r) ==
  /\ r.op = "answers" /\ r.pc = "save"
  /\ IF r.dirty # {} /\ r.stale
     THEN /\ inflight' = Remove(r)
          /\ resp' = Reply("answers", r.user, r.id, 500, "Server error")
          /\ UNCHANGED <<attempts, graded>>
     ELSE /\ attempts' =
               [attempts EXCEPT ![r.id].answers[r.answerIndex] =
                                   ApplySlot(@, r.updated, r.dirty)]
          /\ inflight' =
               IF "answer" \in r.dirty /\ r.updated.answer.isArray
               THEN Staled(Remove(r), r.id) ELSE Remove(r)
          /\ resp' = Reply("answers", r.user, r.id, 200,
                           "Answer submitted successfully")
          /\ graded' = graded \cup
               {[call |-> sent, id |-> r.id, answerIndex |-> r.answerIndex,
                 answer |-> r.updated.answer,
                 isCorrect |-> attempts'[r.id].answers[r.answerIndex].isCorrect,
                 points |-> attempts'[r.id].answers[r.answerIndex].points]}
  /\ UNCHANGED <<now, faulty, assessment, cache, sent, pvars>>

(***************************************************************************)
(* POST /api/attempts/:id/submit                                           *)
(***************************************************************************)
\* Attempt.findById, the checks and the assignments to the loaded document
FinishAttemptFind(u, id) ==
  /\ IF id \notin AttemptIds
     THEN /\ resp' = Reply("submit", u, id, 404, "Attempt not found")
          /\ UNCHANGED inflight
     ELSE IF attempts[id].user # u
     THEN /\ resp' = Reply("submit", u, id, 403, "Permission denied")
          /\ UNCHANGED inflight
     ELSE IF attempts[id].status # "in-progress"
     THEN /\ resp' = Reply("submit", u, id, 400, "Attempt is already completed")
          /\ UNCHANGED inflight
     ELSE /\ inflight' =
               Add([op |-> "submit", pc |-> "save", user |-> u, id |-> id,
                    endTime |-> now,
                    completionTime |-> (now - attempts[id].startTime) \div 1000,
                    totalScore |-> TotalScore(attempts[id].answers),
                    dirtyScore |-> TotalScore(attempts[id].answers)
                                     # attempts[id].totalScore])
          /\ UNCHANGED resp
  /\ UNCHANGED <<now, faulty, assessment, attempts, cache, graded, pvars>>

RECURSIVE SumQuestionPoints(_)
SumQuestionPoints(answers) ==
  IF answers = <<>> THEN 0
  ELSE Question[Head(answers).question].points + SumQuestionPoints(Tail(answers))

\* a finalization that recomputes maxPossibleScore from the questions' own
\* points instead of keeping the snapshot
FinishAttemptSaveRecomputing(r) ==
  /\ r.op = "submit" /\ r.pc = "save"
  /\ attempts' =
       [attempts EXCEPT ![r.id].status = "completed",
                        ![r.id].endTime = r.endTime,
                        ![r.id].completionTime = r.completionTime,
                        ![r.id].totalScore = IF r.dirtyScore THEN r.totalScore ELSE @,
                        ![r.id].maxPossibleScore =
                           SumQuestionPoints(attempts[r.id].answers)]
  /\ cache' = cache \ {r.id}
  /\ resp' =
       [op |-> "submit", user |-> r.user, id |-> r.id, code |-> 200,
        message |-> "Assessment completed successfully",
        result |-> [totalScore |-> r.totalScore,
                    maxPossibleScore |-> attempts'[r.id].maxPossibleScore,
                    passed |-> Passed(r.totalScore, assessment.passingScore),
                    completionTime |-> r.completionTime]]
  /\ inflight' = Remove(r)
  /\ UNCHANGED <<now, faulty, assessment, sent, graded, pvars>>

\* attempt.save(), redis.del, Assessment.findById, the result; a redis.del
\* that rejects lands in the catch, which answers 500
FinishAttemptSave(r) ==
  /\ r.op = "submit" /\ r.pc = "save"
  /\ attempts' =
       [attempts EXCEPT ![r.id].status = "completed",
                        ![r.id].endTime = r.endTime,
                        ![r.id].completionTime = r.completionTime,
                        ![r.id].totalScore = IF r.dirtyScore THEN r.totalScore ELSE @]
  /\ \/ /\ cache' = cache \ {r.id}
        /\ resp' =
             [op |-> "submit", user |-> r.user, id |-> r.id, code |-> 200,
              message |-> "Assessment completed successfully",
              result |-> [totalScore |-> r.totalScore,
                          maxPossibleScore |-> attempts[r.id].maxPossibleScore,
                          passed |-> Passed(r.totalScore, assessment.passingScore),
                          completionTime |-> r.completionTime]]
     \/ /\ faulty
        /\ UNCHANGED cache
        /\ resp' = Reply("submit", r.user, r.id, 500, "Server error")
  /\ inflight' = Remove(r)
  /\ UNCHANGED <<now, faulty, assessment, sent, graded, pvars>>

(***************************************************************************)
(* POST /api/attempts/:id/proctoring                                       *)
(***************************************************************************)
\* a proctoring route that does not compare the attempt's user with the caller
AttemptProctorFindAnyUser(u, id, type) ==
  /\ IF id \notin AttemptIds
     THEN /\ resp' = Reply("proctoring", u, id, 404, "Attempt not found")
          /\ UNCHANGED inflight
     ELSE /\ inflight' =
               Add([op |-> "proctoring", pc |-> "save", user |-> u, id |-> id,
                    event |-> [type |-> type, timestamp |-> now]])
          /\ UNCHANGED resp
  /\ UNCHANGED <<now, faulty, assessment, attempts, cache, graded, pvars>>

\* Attempt.findById, the checks, attempt.proctorEvents.push({...})
AttemptProctorFind(u, id, type) ==
  /\ IF id \notin AttemptIds
     THEN /\ resp' = Reply("proctoring", u, id, 404, "Attempt not found")
          /\ UNCHANGED inflight
     ELSE IF attempts[id].user # u
     THEN /\ resp' = Reply("proctoring", u, id, 403, "Permission denied")
          /\ UNCHANGED inflight
     ELSE /\ inflight' =
               Add([op |-> "proctoring", pc |-> "save", user |-> u, id |-> id,
                    event |-> [type |-> type, timestamp |-> now]])
          /\ UNCHANGED resp
  /\ UNCHANGED <<now, faulty, assessment, attempts, cache, graded, pvars>>

\* attempt.save(): $push of the event, which increments __v; 200
AttemptProctorSave(r) ==
  /\ r.op = "proctoring" /\ r.pc = "save"
  /\ attempts' = [attempts EXCEPT ![r.id].proctorEvents = Append(@, r.event)]
  /\ inflight' = Staled(Remove(r), r.id)
  /\ resp' = Reply("proctoring", r.user, r.id, 200, "Proctoring event recorded")
  /\ UNCHANGED <<now, faulty, assessment, cache, sent, graded, pvars>>

(***************************************************************************)
(* The assessment service                                                  *)
(***************************************************************************)
\* the ids requests name: those of the stored attempts and one that resolves to none
RequestIds == 1..(Len(attempts) + 1)

\* the (questionId, answer) bodies requests carry: the questions of the
\* assessment with their answers, and a question that is not in any attempt
AnswerBodies ==
  UNION {{<<assessment.questions[i].question, a>> :
            a \in AnswerChoices(assessment.questions[i].question)} :
         i \in 1..Len(assessment.questions)} \cup
  {<<"q0", Val("a")>>}

AInit ==
  /\ now = 0
  /\ assessment \in {CreateAssessment(b) : b \in AssessmentBodies}
  /\ attempts = <<>>
  /\ cache = {}
  /\ inflight = EmptyBag
  /\ resp = Reply("none", "", 0, 0, "")
  /\ sent = 0
  /\ graded = {}

StartAttempt(max) ==
  \/ \E u \in Candidates, aid \in AssessmentIds :
       Send(max) /\ StartAttemptCount(u, aid)
  \/ \E r \in BagToSet(inflight) : StartAttemptSave(r)

SubmitAnswer(max) ==
  \/ \E u \in Users, id \in RequestIds, b \in AnswerBodies :
       Send(max) /\ SubmitAnswerFind(u, id, b[1], b[2])
  \/ \E r \in BagToSet(inflight) : SubmitAnswerSaveTimeout(r)
  \/ \E r \in BagToSet(inflight) : SubmitAnswerSave(r)

FinishAttempt(max) ==
  \/ \E u \in Users, id \in RequestIds : Send(max) /\ FinishAttemptFind(u, id)
  \/ \E r \in BagToSet(inflight) : FinishAttemptSave(r)

AttemptProctorEvent(max) ==
  \/ \E u \in Users, id \in RequestIds :
       Send(max) /\ AttemptProctorFind(u, id, "tab-switch")
  \/ \E r \in BagToSet(inflight) : AttemptProctorSave(r)

ANext ==
  \/ Tick
  \/ StartAttempt(MaxRequests)
  \/ SubmitAnswer(MaxRequests)
  \/ FinishAttempt(MaxRequests)

\* the attempt routes together with the attempt's proctoring route
ProctoredNext ==
  \/ ANext
  \/ AttemptProctorEvent(MaxRequests)

(***************************************************************************)
(* The proctor service: sessions and events                                *)
(***************************************************************************)
\* req.user of the requests to the proctor service
Role == [u1 |-> "student", u2 |-> "student", u3 |-> "instructor",
         u4 |-> "admin"]
PUsers == DOMAIN Role

\* req.body.attemptId of the sessions
AttemptRefs == {1}

\* req.body.severity; "missing" is a body without the field
Severities == {"low", "medium", "high", "missing"}

\* const { severity = 'medium' } = req.body
DefaultSeverity(severity) == IF severity = "missing" THEN "medium" ELSE severity

\* the switch on severity, in tenths
SeverityValue(severity) ==
  CASE severity = "low" -> 2
    [] severity = "medium" -> 5
    [] severity = "high" -> 10
    [] OTHER -> 0

\* session.anomalyScore += severityValue, on the loaded document
AddedScore(loadedScore, severity) == loadedScore + SeverityValue(severity)

NewSession(attemptId, u, t) ==
  [attemptId |-> attemptId, userId |-> u, startTime |-> t, endTime |-> NoTime,
   status |-> "active", events |-> <<>>, anomalyScore |-> 0]

NewEvent(session, u, type, severity, t) ==
  [attemptId |-> session.attemptId, userId |-> u, type |-> type,
   severity |-> severity, timestamp |-> t]

SessionIds == 1..Len(sessions)
PRequestIds == 1..(Len(sessions) + 1)

\* ProctorSession.findOne({ attemptId, userId, status: 'active' })
ExistingSession(attemptId, u) ==
  \E i \in SessionIds :
    /\ sessions[i].attemptId = attemptId
    /\ sessions[i].userId = u
    /\ sessions[i].status = "active"

PAdd(r) == pinflight (+) SetToBag({r})
PRemove(r) == pinflight (-) SetToBag({r})
PReplace(r, s) == (pinflight (-) SetToBag({r})) (+) SetToBag({s})

PSend ==
  /\ psent < MaxPRequests
  /\ psent' = psent + 1

\* POST /api/proctor/sessions: findOne, the check, new ProctorSession(...)
StartSessionFind(u, attemptId) ==
  /\ PSend
  /\ IF ExistingSession(attemptId, u)
     THEN /\ presp' = Reply("sessions", u, 0, 400, "Active session already exists")
          /\ UNCHANGED pinflight
     ELSE /\ pinflight' = PAdd([op |-> "sessions", pc |-> "save",
                                doc |-> NewSession(attemptId, u, now)])
          /\ UNCHANGED presp
  /\ UNCHANGED <<now, faulty, sessions, events, avars>>

\* session.save(), producer.send, 201; a producer.send that rejects lands
\* in the catch, which answers 500
StartSessionSave(r) ==
  /\ r.op = "sessions" /\ r.pc = "save"
  /\ sessions' = Append(sessions, r.doc)
  /\ pinflight' = PRemove(r)
  /\ \/ presp' = Reply("sessions", r.doc.userId, Len(sessions) + 1, 201,
                       "Proctoring session started")
     \/ /\ faulty
        /\ presp' = Reply("sessions", r.doc.userId, Len(sessions) + 1, 500,
                          "Server error")
  /\ UNCHANGED <<now, faulty, events, psent, avars>>

\* the checks of a loaded session that End and Record share: 0 when they pass
SessionChecks(op, u, id) ==
  IF id \notin SessionIds
  THEN Reply(op, u, id, 404, "Session not found")
  ELSE IF sessions[id].userId # u
  THEN Reply(op, u, id, 403, "Permission denied")
  ELSE IF sessions[id].status # "active"
  THEN Reply(op, u, id, 400, "Session is not active")
  ELSE Reply(op, u, id, 0, "")

\* POST /api/proctor/sessions/:id/end: findById, the checks, the assignments
EndSessionFind(u, id) ==
  /\ PSend
  /\ IF SessionChecks("end", u, id).code # 0
     THEN /\ presp' = SessionChecks("end", u, id)
          /\ UNCHANGED pinflight
     ELSE /\ pinflight' = PAdd([op |-> "end", pc |-> "save", user |-> u, id |-> id,
                                endTime |-> now])
          /\ UNCHANGED presp
  /\ UNCHANGED <<now, faulty, sessions, events, avars>>

\* session.save(), producer.send, 200 (500 when producer.send rejects)
EndSessionSave(r) ==
  /\ r.op = "end" /\ r.pc = "save"
  /\ sessions' = [sessions EXCEPT ![r.id].status = "completed",
                                  ![r.id].endTime = r.endTime]
  /\ pinflight' = PRemove(r)
  /\ \/ presp' = Reply("end", r.user, r.id, 200, "Proctoring session ended")
     \/ faulty /\ presp' = Reply("end", r.user, r.id, 500, "Server error")
  /\ UNCHANGED <<now, faulty, events, psent, avars>>

\* POST /api/proctor/events: findById, the checks, new ProctorEvent(...)
RecordEventFind(u, id, type, severity) ==
  /\ PSend
  /\ IF SessionChecks("events", u, id).code # 0
     THEN /\ presp' = SessionChecks("events", u, id)
          /\ UNCHANGED pinflight
     ELSE /\ pinflight' =
               PAdd([op |-> "events", pc |-> "saveEvent", user |-> u, id |-> id,
                     event |-> NewEvent(sessions[id], u, type,
                                        DefaultSeverity(severity), now),
                     anomalyScore |-> AddedScore(sessions[id].anomalyScore,
                                                 DefaultSeverity(severity))])
          /\ UNCHANGED presp
  /\ UNCHANGED <<now, faulty, sessions, events, avars>>

\* event.save(), then session.events.push(event) and the score on the loaded document
RecordEventSaveEvent(r) ==
  /\ r.op = "events" /\ r.pc = "saveEvent"
  /\ events' = Append(events, r.event)
  /\ pinflight' = PReplace(r, [r EXCEPT !.pc = "saveSession"])
  /\ UNCHANGED <<now, faulty, sessions, presp, psent, avars>>

\* a session save that writes the loaded event list back with the new event,
\* dropping the events stored since the session was loaded
RecordEventSaveSessionWholeList(r) ==
  /\ r.op = "events" /\ r.pc = "saveSession"
  /\ sessions' = [sessions EXCEPT ![r.id].events = <<r.event>>,
                                  ![r.id].anomalyScore = r.anomalyScore]
  /\ pinflight' = PRemove(r)
  /\ \/ presp' = Reply("events", r.user, r.id, 201, "Proctoring event recorded")
     \/ faulty /\ presp' = Reply("events", r.user, r.id, 500, "Server error")
  /\ UNCHANGED <<now, faulty, events, psent, avars>>

\* session.save(): $push of the event, $set of anomalyScore; producer.send, 201
\* (500 when producer.send rejects)
RecordEventSaveSession(r) ==
  /\ r.op = "events" /\ r.pc = "saveSession"
  /\ sessions' = [sessions EXCEPT ![r.id].events = Append(@, r.event),
                                  ![r.id].anomalyScore = r.anomalyScore]
  /\ pinflight' = PRemove(r)
  /\ \/ presp' = Reply("events", r.user, r.id, 201, "Proctoring event recorded")
     \/ faulty /\ presp' = Reply("events", r.user, r.id, 500, "Server error")
  /\ UNCHANGED <<now, faulty, events, psent, avars>>

\* an authorization that lets only the session's own user through
OwnerOnly(session, u) == session.userId = u

\* GET /api/proctor/sessions/:id/events
IsAuthorized(session, u) ==
  session.userId = u \/ Role[u] \in {"admin", "instructor"}

GetSessionEvents(u, id) ==
  /\ PSend
  /\ presp' =
       IF id \notin SessionIds
       THEN Reply("getEvents", u, id, 404, "Session not found")
       ELSE IF ~IsAuthorized(sessions[id], u)
       THEN Reply("getEvents", u, id, 403, "Permission denied")
       ELSE [op |-> "getEvents", user |-> u, id |-> id, code |-> 200, message |-> "",
             status |-> sessions[id].status,
             anomalyScore |-> sessions[id].anomalyScore,
             events |-> sessions[id].events]
  /\ UNCHANGED <<now, faulty, sessions, events, pinflight, avars>>

\* GET /api/proctor/lockdown/:sessionId: reads the session and answers with
\* its lockdown configuration (the settings a session was started with are not
\* part of the model; the other entries of the answer are fixed)
GetLockdownConfig(u, id) ==
  /\ PSend
  /\ presp' =
       IF id \notin SessionIds
       THEN Reply("lockdown", u, id, 404, "Session not found")
       ELSE IF sessions[id].userId # u
       THEN Reply("lockdown", u, id, 403, "Permission denied")
       ELSE [op |-> "lockdown", user |-> u, id |-> id, code |-> 200, message |-> "",
             preventCopyPaste |-> TRUE, preventTabSwitching |-> TRUE]
  /\ UNCHANGED <<now, faulty, sessions, events, pinflight, avars>>

StartSession ==
  \/ \E u \in {"u1"}, attemptId \in AttemptRefs : StartSessionFind(u, attemptId)
  \/ \E r \in BagToSet(pinflight) : StartSessionSave(r)

EndSession ==
  \/ \E u \in PUsers, id \in PRequestIds : EndSessionFind(u, id)
  \/ \E r \in BagToSet(pinflight) : EndSessionSave(r)

RecordEvent ==
  \/ \E u \in PUsers, id \in PRequestIds, severity \in Severities :
       RecordEventFind(u, id, "tab-switch", severity)
  \/ \E r \in BagToSet(pinflight) : RecordEventSaveEvent(r)
  \/ \E r \in BagToSet(pinflight) : RecordEventSaveSession(r)

PNext ==
  \/ Tick
  \/ StartSession
  \/ EndSession
  \/ RecordEvent
  \/ \E u \in PUsers, id \in PRequestIds : GetSessionEvents(u, id)
  \/ \E u \in PUsers, id \in PRequestIds : GetLockdownConfig(u, id)

PInit ==
  /\ sessions = <<>>
  /\ events = <<>>
  /\ pinflight = EmptyBag
  /\ presp = Reply("none", "", 0, 0, "")
  /\ psent = 0

Init == AInit /\ PInit /\ faulty = FALSE

AttemptSpec == Init /\ [][ANext]_vars

ProctoredSpec == Init /\ [][ProctoredNext]_vars

\* the attempt routes on an assessment with a schedule or an unpublished one
ScheduleInit ==
  /\ now = 0
  /\ assessment \in {CreateAssessment(b) : b \in ScheduleBodies}
  /\ attempts = <<>>
  /\ cache = {}
  /\ inflight = EmptyBag
  /\ resp = Reply("none", "", 0, 0, "")
  /\ sent = 0
  /\ graded = {}
  /\ PInit
  /\ faulty = FALSE

ScheduleSpec == ScheduleInit /\ [][ANext]_vars

\* the attempt routes while the cache may reject commands
FaultInit == AInit /\ PInit /\ faulty = TRUE

FaultSpec == FaultInit /\ [][ANext]_vars

\* the requests run one after another: none starts while another is in flight
Sequential == BagCardinality(inflight) <= 1
SeqNext ==
  \/ Tick
  \/ StartAttempt(MaxSeqRequests) /\ Sequential'
  \/ SubmitAnswer(MaxSeqRequests) /\ Sequential'
  \/ FinishAttempt(MaxSeqRequests) /\ Sequential'

SeqSpec == Init /\ [][SeqNext]_vars

\* the attempt routes on an assessment of questions that are not auto-graded,
\* one request at a time
ManualInit ==
  /\ now = 0
  /\ assessment =
       CreateAssessment(Body(<<QP("q4", 3), QP("q6", 4), QP("q7", 2)>>, 1, 1, FALSE))
  /\ attempts = <<>>
  /\ cache = {}
  /\ inflight = EmptyBag
  /\ resp = Reply("none", "", 0, 0, "")
  /\ sent = 0
  /\ graded = {}
  /\ PInit
  /\ faulty = FALSE

ManualSpec == ManualInit /\ [][SeqNext]_vars

\* the proctor service has its own database: one assessment stands for all
ProctorInit ==
  /\ AInit /\ assessment.questions = <<QP("q1", 5)>>
  /\ PInit
  /\ faulty \in BOOLEAN

ProctorSpec == ProctorInit /\ [][PNext]_vars

Next == ANext \/ PNext
Spec == Init /\ [][Next]_vars

\* the attempt routes with the scheduling of the handlers: a handler that
\* awaits a database call is resumed when the call returns, so every step after
\* an await is eventually taken; the clock advances; clients are free to send
\* requests or not
LazyFairness ==
  /\ WF_vars(Tick)
  /\ WF_vars(\E r \in BagToSet(inflight) : StartAttemptSave(r))
  /\ WF_vars(\E r \in BagToSet(inflight) : SubmitAnswerSaveTimeout(r))
  /\ WF_vars(\E r \in BagToSet(inflight) : SubmitAnswerSave(r))
  /\ WF_vars(\E r \in BagToSet(inflight) : FinishAttemptSave(r))

LazyInit ==
  /\ AInit /\ assessment.questions = <<QP("q3", 1), QP("q4", 3)>>
  /\ PInit
  /\ faulty = FALSE

LazySpec == LazyInit /\ [][ANext]_vars /\ LazyFairness

\* the attempt routes on an assessment whose question list, as posted to
\* POST /api/assessments, names a question twice
DuplicateInit ==
  /\ now = 0
  /\ assessment \in
       {CreateAssessment(b) :
          b \in {Body(<<QP("q1", 5), QP("q1", 5)>>, 5, 1, FALSE),
                 Body(<<QP("q3", 1), QP("q1", 5), QP("q3", 1)>>, 5, 1, TRUE)}}
  /\ attempts = <<>>
  /\ cache = {}
  /\ inflight = EmptyBag
  /\ resp = Reply("none", "", 0, 0, "")
  /\ sent = 0
  /\ graded = {}
  /\ PInit
  /\ faulty = FALSE

DuplicateSpec == DuplicateInit /\ [][SeqNext]_vars

\* overlapping SubmitAnswer calls of clients that answer each question once:
\* per attempt and slot, at most one call in flight or one stored answer
AnswersInFlight(id, i) ==
  BagSum(inflight, {r \in BagToSet(inflight) :
                      /\ r.op = "answers" /\ r.pc = "save"
                      /\ r.id = id /\ r.answerIndex = i})

OncePerQuestion ==
  \A id \in AttemptIds : \A i \in 1..Len(attempts[id].answers) :
    AnswersInFlight(id, i) +
      (IF attempts[id].answers[i].answer = NoAnswer THEN 0 ELSE 1) <= 1

PairInit ==
  /\ now = 0
  /\ assessment \in
       {CreateAssessment(b) :
          b \in {Body(<<QP("q1", 5), QP("q3", 1)>>, 5, 1, FALSE),
                 Body(<<QP("q1", 5), QP("q2", 2)>>, 5, 1, FALSE),
                 Body(<<QP("q3", 1), QP("q4", 3)>>, 2, 1, TRUE)}}
  /\ attempts = <<>>
  /\ cache = {}
  /\ inflight = EmptyBag
  /\ resp = Reply("none", "", 0, 0, "")
  /\ sent = 0
  /\ graded = {}
  /\ PInit
  /\ faulty = FALSE

PairNext ==
  \/ Tick
  \/ StartAttempt(MaxRequests)
  \/ SubmitAnswer(MaxRequests) /\ OncePerQuestion'

PairSpec == PairInit /\ [][PairNext]_vars

(***************************************************************************)
(* Properties                                                              *)
(***************************************************************************)
Range(s) == {s[i] : i \in 1..Len(s)}

Slots(id) == 1..Len(attempts[id].answers)

Owner(id) == attempts[id].user

\* C1: an attempt that has left in-progress keeps its status: a finalization
\* (completed by FinishAttempt, timed-out by a late SubmitAnswer) is never
\* overwritten by the other one, in any interleaving of the two calls
C1_FinalStatusNeverOverwritten ==
  [][\A id \in AttemptIds :
       attempts[id].status # "in-progress" =>
         attempts'[id].status = attempts[id].status]_vars

\* C2: no user ever holds more Attempt records on the assessment than its
\* allowedAttempts, whichever way StartAttempt calls interleave
C2_AttemptLimit ==
  \A u \in Users : AttemptCount(u) <= assessment.allowedAttempts

\* C3: at most one ProctorSession is active for any (attemptId, userId) pair
C3_OneActiveSession ==
  \A i, j \in SessionIds :
    /\ sessions[i].status = "active" /\ sessions[j].status = "active"
    /\ sessions[i].attemptId = sessions[j].attemptId
    /\ sessions[i].userId = sessions[j].userId
    => i = j

RECURSIVE WeightSum(_)
WeightSum(evs) ==
  IF evs = <<>> THEN 0
  ELSE (CASE Head(evs).severity = "low" -> 2
          [] Head(evs).severity = "medium" -> 5
          [] Head(evs).severity = "high" -> 10) + WeightSum(Tail(evs))

\* C4: a session's anomalyScore is the sum of the weights (low 0.2, medium 0.5,
\* high 1.0, in tenths) of the events it holds, whatever the interleaving of
\* the RecordEvent calls: no increment is lost
C4_AnomalyScoreIsSum ==
  \A id \in SessionIds :
    sessions[id].anomalyScore = WeightSum(sessions[id].events)

\* C5: a completed attempt's totalScore never exceeds its maxPossibleScore
C5_ScoreWithinMax ==
  \A id \in AttemptIds :
    attempts[id].status = "completed" =>
      attempts[id].totalScore <= attempts[id].maxPossibleScore

\* the ids of the options flagged isCorrect on a question
FlaggedIds(question) ==
  {question.options[k].id :
     k \in {n \in 1..Len(question.options) : question.options[n].isCorrect}}

\* C6: an answered multiple-choice slot is graded correct exactly when the
\* submitted option ids, taken as a set, are the set of the option ids
\* flagged isCorrect on the question
C6_MultipleChoiceSetEquality ==
  \A id \in AttemptIds : \A i \in Slots(id) :
    LET slot == attempts[id].answers[i]
        question == Question[slot.question]
    IN  (question.type = "multiple-choice" /\ slot.answer # NoAnswer) =>
          ((slot.isCorrect = "true") <=>
             /\ slot.answer.isArray
             /\ Range(slot.answer.val) = FlaggedIds(question))
\* C7: an answered single-choice or true-false slot is graded correct exactly
\* when the submitted value is the id of the option flagged isCorrect, and
\* holds question.points when correct and 0 otherwise
C7_SingleChoiceGrading ==
  \A id \in AttemptIds : \A i \in Slots(id) :
    LET slot == attempts[id].answers[i]
        question == Question[slot.question]
    IN  (question.type \in {"single-choice", "true-false"}
           /\ slot.answer # NoAnswer) =>
          /\ (slot.isCorrect = "true") <=>
               /\ ~slot.answer.isArray
               /\ \E o \in FlaggedIds(question) : slot.answer.val = <<o>>
          /\ slot.points = IF slot.isCorrect = "true" THEN question.points ELSE 0

\* the correct option of q1 was submitted and the slot holds its 5 points
C7_Witness ==
  \E id \in AttemptIds : \E i \in Slots(id) :
    LET slot == attempts[id].answers[i]
    IN  /\ slot.question = "q1" /\ slot.answer = Val("b")
        /\ slot.isCorrect = "true" /\ slot.points = 5
        /\ \E g \in graded : g.id = id /\ g.answerIndex = i /\ g.answer = Val("b")

\* C8: two successful SubmitAnswer calls with the same answer for the same slot
\* of the same attempt leave it with the same isCorrect and points, whatever
\* was submitted in between
C8_GradingIdempotent ==
  \A g, h \in graded :
    (g.id = h.id /\ g.answerIndex = h.answerIndex /\ g.answer = h.answer) =>
      (g.isCorrect = h.isCorrect /\ g.points = h.points)

\* an answer, then another answer, then the first answer again, on one slot
C8_Witness ==
  \E g, k, h \in graded :
    /\ g.call < k.call /\ k.call < h.call
    /\ g.id = h.id /\ g.answerIndex = h.answerIndex /\ g.answer = h.answer
    /\ k.id = g.id /\ k.answerIndex = g.answerIndex /\ k.answer # g.answer
    /\ g.isCorrect = "true" /\ g.points > 0

\* the grade of the last successful submission for slot i of attempt id
LastGrades(id, i) ==
  {g \in graded :
     /\ g.id = id /\ g.answerIndex = i
     /\ \A h \in graded :
          (h.id = id /\ h.answerIndex = i) => h.call <= g.call}

RECURSIVE ExpectedScore(_, _)
ExpectedScore(id, i) ==
  IF i = 0 THEN 0
  ELSE ExpectedScore(id, i - 1) +
       (IF \E g \in LastGrades(id, i) : g.isCorrect = "true"
        THEN Question[attempts[id].answers[i].question].points ELSE 0)

RepliesAtOnce == sent' # sent /\ inflight' = inflight

\* no answer is recorded after startTime + duration
C10_NoLateAnswer ==
  \A id \in AttemptIds : \A i \in Slots(id) :
    attempts[id].answers[i].timeSpent # NoTime =>
      attempts[id].answers[i].timeSpent * 1000 <= assessment.duration * 60000

\* an attempt is timed-out only strictly after startTime + duration
C10_TimedOutOnlyLate ==
  \A id \in AttemptIds :
    attempts[id].status = "timed-out" =>
      /\ now > TimeLimit(attempts[id].startTime)
      /\ attempts[id].endTime = TimeLimit(attempts[id].startTime)

\* the owner's SubmitAnswer on an in-progress attempt heads for TimeExpired
\* exactly when it comes strictly after startTime + duration
C10_LateSubmitExpires ==
  /\ \A r \in BagToSet(inflight') :
       (sent' # sent /\ r.op = "answers"
          /\ CopiesIn(r, inflight') > CopiesIn(r, inflight)) =>
         ((r.pc = "saveTimeout") <=> (now > TimeLimit(attempts[r.id].startTime)))
  /\ (/\ RepliesAtOnce /\ resp'.op = "answers" /\ resp'.id \in AttemptIds
      /\ resp'.user = Owner(resp'.id)
      /\ attempts[resp'.id].status = "in-progress") =>
       now <= TimeLimit(attempts[resp'.id].startTime)

\* the TimeExpired response leaves the attempt timed-out and its answers as
\* they were
C10_TimeExpiredEffect ==
  (/\ BagCardinality(inflight') < BagCardinality(inflight)
   /\ resp'.message = "Assessment time limit exceeded") =>
    /\ resp'.code = 400
    /\ attempts'[resp'.id].status = "timed-out"
    /\ attempts'[resp'.id].answers = attempts[resp'.id].answers

\* on a timed-out attempt the owner's FinishAttempt and SubmitAnswer are
\* answered at once with AlreadyFinalized
C10_ThenAlreadyFinalized ==
  \A id \in AttemptIds :
    attempts[id].status = "timed-out" =>
      /\ \A r \in BagToSet(inflight') :
           (r.op \in {"answers", "submit"} /\ r.id = id) =>
             CopiesIn(r, inflight') <= CopiesIn(r, inflight)
      /\ (/\ RepliesAtOnce /\ resp'.op \in {"answers", "submit"}
          /\ resp'.id = id /\ resp'.user = Owner(id)) =>
           (resp'.code = 400 /\ resp'.message = "Attempt is already completed")

\* C10: the owner's SubmitAnswer strictly after startTime + duration returns
\* TimeExpired, records no answer and leaves the attempt timed-out; every
\* FinishAttempt or SubmitAnswer that follows returns AlreadyFinalized; a
\* SubmitAnswer exactly at startTime + duration is accepted
C10_Timeout ==
  /\ [](C10_NoLateAnswer /\ C10_TimedOutOnlyLate)
  /\ [][C10_LateSubmitExpires /\ C10_TimeExpiredEffect
          /\ C10_ThenAlreadyFinalized]_vars

\* an answer accepted exactly at the limit, then the timeout, then the owner's
\* next call answered AlreadyFinalized
C10_Witness ==
  \E id \in AttemptIds :
    /\ attempts[id].status = "timed-out"
    /\ \E i \in Slots(id) :
         attempts[id].answers[i].timeSpent * 1000 = assessment.duration * 60000
    /\ resp.op \in {"answers", "submit"} /\ resp.id = id
    /\ resp.user = Owner(id)
    /\ resp.message = "Attempt is already completed"

\* C11: a FinishAttempt strictly after startTime + duration leaves the attempt
\* timed-out, never completed: every completed attempt ended within the limit,
\* with completionTime <= duration * 60 seconds
C11_CompletedWithinLimit ==
  \A id \in AttemptIds :
    attempts[id].status = "completed" =>
      /\ attempts[id].endTime <= TimeLimit(attempts[id].startTime)
      /\ attempts[id].completionTime <= assessment.duration * 60

\* C12: an attempt's status changes only from in-progress to completed or to
\* timed-out and then never again, under any interleaving of StartAttempt,
\* SubmitAnswer, FinishAttempt and proctor-event calls; abandoned is not reached
C12_StatusTerminal ==
  /\ [](\A id \in AttemptIds :
          attempts[id].status \in {"in-progress", "completed", "timed-out"})
  /\ [][\A id \in AttemptIds :
          attempts'[id].status # attempts[id].status =>
            /\ attempts[id].status = "in-progress"
            /\ attempts'[id].status \in {"completed", "timed-out"}]_vars

\* the availability window of the specification: start <= t < end
InWindow(t) ==
  /\ assessment.startTime # NoTime => assessment.startTime <= t
  /\ assessment.endTime # NoTime => t < assessment.endTime

OutOfWindowMessages ==
  {"Assessment has not started yet", "Assessment has already ended"}

\* the requests in flight after the step that were not in flight before it
Taken == {r \in BagToSet(inflight') : CopiesIn(r, inflight') > CopiesIn(r, inflight)}

\* a response is given by a step that ends a request in flight
RepliesLater == BagCardinality(inflight') < BagCardinality(inflight)

\* a StartAttempt passes its checks only on a published assessment, inside the
\* window, below the attempt limit
C13_PassesChecks ==
  \A r \in Taken :
    (sent' # sent /\ r.op = "attempt") =>
      /\ assessment.status = "published"
      /\ InWindow(now)
      /\ AttemptCount(r.doc.user) < assessment.allowedAttempts

\* a failing StartAttempt names its reason and creates nothing
C13_FailsClean ==
  (RepliesAtOnce /\ resp'.op = "attempt") =>
    /\ attempts' = attempts /\ cache' = cache
    /\ resp'.code \in {400, 404}
    /\ resp'.code = 404 <=> resp'.message = "Assessment not found"
    /\ resp'.message = "Assessment is not published" =>
         assessment.status \in {"draft", "archived"}
    /\ resp'.message \in OutOfWindowMessages => ~InWindow(now)
    /\ resp'.message = "Maximum attempts reached" =>
         AttemptCount(resp'.user) >= assessment.allowedAttempts
    /\ (resp'.code = 400 /\ assessment.status # "published") =>
         resp'.message = "Assessment is not published"

\* a succeeding StartAttempt creates one in-progress attempt with all slot
\* points 0 and its cache record
C13_CreatesOne ==
  attempts' # attempts /\ Len(attempts') # Len(attempts) =>
    /\ Len(attempts') = Len(attempts) + 1
    /\ \A id \in AttemptIds : attempts'[id] = attempts[id]
    /\ attempts'[Len(attempts')].status = "in-progress"
    /\ \A i \in 1..Len(attempts'[Len(attempts')].answers) :
         attempts'[Len(attempts')].answers[i].points = 0
    /\ cache' = cache \cup {Len(attempts')}
    /\ resp'.op = "attempt" /\ resp'.code = 201

\* C13: StartAttempt fails with NotFound, NotPublished (draft or archived),
\* OutOfWindow (outside the availability window) or AttemptLimitExceeded; a
\* failing call creates no attempt and no cache record, a succeeding one
\* creates exactly one in-progress attempt with all slot points 0
C13_StartAttemptErrors ==
  [][C13_PassesChecks /\ C13_FailsClean /\ C13_CreatesOne]_vars

\* C14: the window is half-open: StartAttempt on a published assessment passes
\* the window check exactly when startTime <= now < endTime, so a call at
\* now = startTime is admitted and a call at now = endTime is OutOfWindow
C14_HalfOpenWindow ==
  [][/\ \A r \in Taken :
          (sent' # sent /\ r.op = "attempt") =>
            /\ assessment.startTime # NoTime => assessment.startTime <= now
            /\ assessment.endTime # NoTime => now < assessment.endTime
     /\ (RepliesAtOnce /\ resp'.op = "attempt"
           /\ resp'.message = "Assessment has not started yet") =>
          now < assessment.startTime
     /\ (RepliesAtOnce /\ resp'.op = "attempt"
           /\ resp'.message = "Assessment has already ended") =>
          now >= assessment.endTime]_vars

\* a SubmitAnswer that fails at once fails for the first check that does not
\* pass, in the order NotFound, Forbidden, AlreadyFinalized, (TimeExpired,)
\* UnknownQuestion, and leaves every attempt as it was
C15_FailsInOrder ==
  (RepliesAtOnce /\ resp'.op = "answers") =>
    LET id == resp'.id
    IN  /\ attempts' = attempts
        /\ resp'.code \in {400, 403, 404}
        /\ resp'.code = 404 <=> id \notin AttemptIds
        /\ resp'.code = 403 <=> (id \in AttemptIds /\ resp'.user # Owner(id))
        /\ resp'.message = "Attempt is already completed" <=>
             /\ id \in AttemptIds /\ resp'.user = Owner(id)
             /\ attempts[id].status # "in-progress"
        /\ resp'.message = "Question not found in this attempt" <=>
             /\ id \in AttemptIds /\ resp'.user = Owner(id)
             /\ attempts[id].status = "in-progress"
             /\ now <= TimeLimit(attempts[id].startTime)

\* TimeExpired changes status, endTime and completionTime and nothing else
C15_TimeExpiredTouchesNoSlot ==
  (RepliesLater /\ resp'.message = "Assessment time limit exceeded") =>
    attempts' = [attempts EXCEPT
                   ![resp'.id].status = "timed-out",
                   ![resp'.id].endTime = attempts'[resp'.id].endTime,
                   ![resp'.id].completionTime = attempts'[resp'.id].completionTime]

\* the owner's SubmitAnswer after the deadline heads for TimeExpired whatever
\* its question id
C15_DeadlineBeforeQuestion ==
  \A r \in Taken :
    (sent' # sent /\ r.op = "answers") =>
      (r.pc = "saveTimeout" <=> now > TimeLimit(attempts[r.id].startTime))

\* C15: a SubmitAnswer failing with NotFound, Forbidden, AlreadyFinalized or
\* UnknownQuestion leaves the attempt unchanged; TimeExpired changes status,
\* endTime and completionTime but no slot; the checks come in the order
\* NotFound, Forbidden, AlreadyFinalized, TimeExpired, UnknownQuestion
C15_SubmitAnswerErrors ==
  [][C15_FailsInOrder /\ C15_TimeExpiredTouchesNoSlot
       /\ C15_DeadlineBeforeQuestion]_vars

\* an unknown question id submitted after the deadline, to an attempt with a
\* recorded answer, was answered TimeExpired
C15_Witness ==
  /\ resp.op = "answers" /\ resp.message = "Assessment time limit exceeded"
  /\ resp.questionId = "q0"
  /\ attempts[resp.id].status = "timed-out"
  /\ \E i \in Slots(resp.id) : attempts[resp.id].answers[i].answer # NoAnswer

ManualTypes == {"essay", "coding", "fill-in-the-blank"}

RECURSIVE AutoGradedPoints(_)
AutoGradedPoints(answers) ==
  IF answers = <<>> THEN 0
  ELSE (IF Question[Head(answers).question].type \in ManualTypes THEN 0
        ELSE Head(answers).points) + AutoGradedPoints(Tail(answers))

\* C16: a successful SubmitAnswer on an essay, coding or fill-in-the-blank
\* question stores the answer and timeSpent, leaves isCorrect unset and points
\* 0, and such slots add nothing to the totalScore FinishAttempt returns
C16_ManualSlotsUngraded ==
  /\ \A id \in AttemptIds : \A i \in Slots(id) :
       LET slot == attempts[id].answers[i]
       IN  Question[slot.question].type \in ManualTypes =>
             /\ slot.isCorrect = "unset" /\ slot.points = 0
             /\ \A g \in LastGrades(id, i) :
                  /\ slot.answer = g.answer /\ slot.answer # NoAnswer
                  /\ slot.timeSpent # NoTime
                  /\ g.isCorrect = "unset" /\ g.points = 0
  /\ (resp.op = "submit" /\ resp.code = 200) =>
       resp.result.totalScore = AutoGradedPoints(attempts[resp.id].answers)

\* an attempt with answered essay and coding slots was finished with
\* totalScore 0
C16_Witness ==
  /\ resp.op = "submit" /\ resp.code = 200 /\ resp.result.totalScore = 0
  /\ \A t \in {"essay", "coding"} : \E i \in Slots(resp.id) :
       /\ Question[attempts[resp.id].answers[i].question].type = t
       /\ attempts[resp.id].answers[i].answer = Val("text")
       /\ attempts[resp.id].answers[i].timeSpent # NoTime

\* the stored timeSpent of no slot decreases in a step
C17_TimeSpentMonotonic ==
  \A id \in AttemptIds : \A i \in Slots(id) :
    attempts'[id].answers[i].timeSpent >= attempts[id].answers[i].timeSpent

\* after a committed SubmitAnswer the slot holds the answer it submitted
C17_LastWriteWins ==
  \A g \in graded' \ graded :
    attempts'[g.id].answers[g.answerIndex].answer = g.answer

\* C17: across any sequence or interleaving of successful SubmitAnswer calls on
\* a slot, the stored timeSpent never decreases, and the stored answer is that
\* of the last committed write
C17_TimeSpentNeverDecreases ==
  [][C17_TimeSpentMonotonic /\ C17_LastWriteWins]_vars

\* a response of the proctor service given at once by the step that takes the
\* request
PRepliesAtOnce == psent' # psent /\ pinflight' = pinflight

\* RecordEvent and EndSession go on only for an active session of the caller,
\* and fail at once with NotFound, Forbidden or NotActive otherwise
C18_Preconditions ==
  /\ \A r \in BagToSet(pinflight') :
       (/\ psent' # psent /\ r.op \in {"end", "events"}
        /\ CopiesIn(r, pinflight') > CopiesIn(r, pinflight)) =>
         /\ r.id \in SessionIds
         /\ sessions[r.id].userId = r.user
         /\ sessions[r.id].status = "active"
  /\ (PRepliesAtOnce /\ presp'.op \in {"end", "events"}) =>
       /\ presp'.code = 404 <=> presp'.id \notin SessionIds
       /\ presp'.code = 403 <=>
            (presp'.id \in SessionIds /\ sessions[presp'.id].userId # presp'.user)
       /\ presp'.code = 400 <=>
            /\ presp'.id \in SessionIds
            /\ sessions[presp'.id].userId = presp'.user
            /\ sessions[presp'.id].status # "active"
       /\ sessions' = sessions

\* a session that has left active stays so, with its events and anomalyScore
C18_EndedSessionFrozen ==
  \A id \in SessionIds :
    sessions[id].status # "active" =>
      /\ sessions'[id].status # "active"
      /\ sessions'[id].events = sessions[id].events
      /\ sessions'[id].anomalyScore = sessions[id].anomalyScore

\* C18: RecordEvent and EndSession succeed only on an active session of the
\* caller (NotFound, Forbidden, NotActive otherwise); a session that has left
\* active never becomes active again, gets no more events and keeps its
\* anomalyScore, also when a RecordEvent that read it as active commits after
\* a concurrent EndSession
C18_ActiveOnly ==
  [][C18_Preconditions /\ C18_EndedSessionFrozen]_vars

\* C19: GetSessionEvents returns the session's metadata and events exactly to
\* the session's own user and to instructors and admins; any other requester
\* gets Forbidden, a missing session NotFound, and the call changes no
\* session, event or anomalyScore
C19_GetSessionEvents ==
  [][(PRepliesAtOnce /\ presp'.op = "getEvents") =>
       LET id == presp'.id
           allowed == /\ id \in SessionIds
                      /\ \/ sessions[id].userId = presp'.user
                         \/ Role[presp'.user] \in {"instructor", "admin"}
       IN  /\ sessions' = sessions /\ events' = events
           /\ presp'.code \in {200, 403, 404}
           /\ presp'.code = 404 <=> id \notin SessionIds
           /\ presp'.code = 200 <=> allowed
           /\ presp'.code = 200 =>
                /\ presp'.status = sessions[id].status
                /\ presp'.anomalyScore = sessions[id].anomalyScore
                /\ presp'.events = sessions[id].events]_vars

\* an instructor who does not own the session was given its recorded event
C19_Witness ==
  /\ presp.op = "getEvents" /\ presp.code = 200
  /\ presp.user = "u3" /\ sessions[presp.id].userId # "u3"
  /\ Len(presp.events) = 1 /\ presp.anomalyScore > 0

\* C20: no mutating operation partially applies: a StartAttempt, FinishAttempt,
\* StartSession, EndSession or RecordEvent that reports an error because the
\* cache or the message bus failed after the database write leaves no effect:
\* no attempt, no status change, no session, no event, no anomalyScore change
C20_NoPartialApply ==
  [][/\ (RepliesLater /\ resp'.op \in {"attempt", "submit"}
           /\ resp'.code = 500) =>
          attempts' = attempts
     /\ (BagCardinality(pinflight') < BagCardinality(pinflight)
           /\ presp'.op \in {"sessions", "end", "events"}
           /\ presp'.code = 500) =>
          sessions' = sessions]_vars

\* C21: a completed attempt's totalScore is the sum of the points of its
\* slots: no SubmitAnswer writes a slot after the attempt has been finalized,
\* not even one that read the attempt as in-progress before FinishAttempt saved
C21_CompletedScoreIsSlotSum ==
  \A id \in AttemptIds :
    attempts[id].status = "completed" =>
      attempts[id].totalScore = SumSlotPoints(attempts[id].answers)

\* C21, as a step property: the slots of a finalized attempt do not change
C21_FinalizedSlotsFrozen ==
  [][\A id \in AttemptIds :
       attempts[id].status # "in-progress" =>
         attempts'[id].answers = attempts[id].answers]_vars

\* C22: a timed-out attempt's totalScore is the sum of the points awarded on
\* its slots before the deadline
C22_TimedOutScoreIsSlotSum ==
  \A id \in AttemptIds :
    attempts[id].status = "timed-out" =>
      attempts[id].totalScore = SumSlotPoints(attempts[id].answers)

\* C23: a timed-out attempt has endTime = startTime + duration and
\* completionTime = duration * 60 seconds, however late the call that detected
\* the timeout ran, and endTime is unset exactly while the attempt is
\* in-progress; in every interleaving of the calls
C23_TimeoutEndsAtLimit ==
  \A id \in AttemptIds :
    /\ attempts[id].status = "timed-out" =>
         /\ attempts[id].endTime =
              attempts[id].startTime + assessment.duration * 60000
         /\ attempts[id].completionTime = assessment.duration * 60
    /\ attempts[id].endTime = NoTime <=> attempts[id].status = "in-progress"

\* a timeout detected a whole tick after the deadline
C23_Witness ==
  \E id \in AttemptIds :
    /\ attempts[id].status = "timed-out"
    /\ now >= attempts[id].startTime + assessment.duration * 60000 + TickMs
    /\ attempts[id].endTime < now
    /\ resp.op = "answers" /\ resp.id = id /\ resp.code = 400

\* C24: two overlapping successful SubmitAnswer calls for different questions
\* of one attempt both take effect: in every interleaving of their reads and
\* writes, each call's slot holds that call's answer with the grade and points
\* of that answer, and keeps them when the other call writes
C24_BothAnswersKept ==
  \A g \in graded :
    LET slot == attempts[g.id].answers[g.answerIndex]
        question == Question[slot.question]
    IN  /\ slot.answer = g.answer
        /\ AutoGraded(question) =>
             /\ slot.isCorrect = IsCorrect(question, g.answer)
             /\ slot.points = AwardedPoints(question, slot.isCorrect)
        /\ ~AutoGraded(question) => slot.isCorrect = "unset" /\ slot.points = 0

\* two calls for different slots that were both sent before either saved
C24_Witness ==
  \E g, h \in graded :
    /\ g.id = h.id /\ g.answerIndex # h.answerIndex
    /\ g.call = h.call
    /\ attempts[g.id].answers[g.answerIndex].answer = g.answer
    /\ attempts[h.id].answers[h.answerIndex].answer = h.answer
    /\ g.points > 0

\* the questions of the slots of attempt id, in slot order
SlotQuestions(id) ==
  [i \in 1..Len(attempts[id].answers) |-> attempts[id].answers[i].question]

\* C25: every attempt has exactly one slot per question of its assessment and
\* no two slots for the same question; the slots are a permutation of the
\* assessment's question list, in the list's order when randomizeQuestions is
\* false
C25_OneSlotPerQuestion ==
  \A id \in AttemptIds :
    /\ \A i, j \in Slots(id) :
         i # j => attempts[id].answers[i].question # attempts[id].answers[j].question
    /\ \E order \in Shuffles(assessment.questions) :
         SlotQuestions(id) = [i \in 1..Len(order) |-> order[i].question]
    /\ ~assessment.randomizeQuestions =>
         SlotQuestions(id) =
           [i \in 1..Len(assessment.questions) |-> assessment.questions[i].question]

\* C25, as a step property: no operation adds, removes or re-targets a slot
C25_SlotsFixed ==
  [][\A id \in AttemptIds : SlotQuestions(id)' = SlotQuestions(id)]_vars

C27_AnomalyScoreNeverDecreases ==
  [][\A id \in SessionIds :
       sessions'[id].anomalyScore >= sessions[id].anomalyScore]_vars

\* a step in which a RecordEvent call ends
RecordEventEnds ==
  /\ BagCardinality(pinflight') < BagCardinality(pinflight)
  /\ presp'.op = "events"
  /\ presp'.code = 201 \/ (faulty /\ presp'.code = 500)

\* C28: a session's event list is append-only: every step of StartSession,
\* EndSession, RecordEvent, GetSessionEvents and GetLockdownConfig leaves the
\* list of every session unchanged or, being the end of a RecordEvent, extends
\* it by exactly one event at its end; the stored events themselves are never
\* modified or removed
C28_EventsAppendOnly ==
  [][/\ \A id \in SessionIds :
          \/ sessions'[id].events = sessions[id].events
          \/ /\ RecordEventEnds /\ presp'.id = id
             /\ Len(sessions'[id].events) = Len(sessions[id].events) + 1
             /\ SubSeq(sessions'[id].events, 1, Len(sessions[id].events)) =
                  sessions[id].events
     /\ \/ events' = events
        \/ /\ Len(events') = Len(events) + 1
           /\ SubSeq(events', 1, Len(events)) = events]_vars

\* two overlapping RecordEvent calls (one of the two score increments is
\* lost) both appended their event to the list
C28_Witness ==
  \E id \in SessionIds :
    /\ Len(sessions[id].events) = 2
    /\ sessions[id].anomalyScore < WeightSum(sessions[id].events)
    /\ Len(events) = 2

OwnerOps == {"answers", "submit", "proctoring"}

\* C30: only an attempt's owner can change it: a SubmitAnswer, FinishAttempt
\* or attempt-level proctor-event call by any other user is answered Forbidden
\* (403) at once and leaves every attempt unchanged, also after the deadline of
\* an in-progress attempt (no timeout transition); only the owner's calls pass
\* the checks, and every change of a stored attempt is the end of a call of
\* its owner
C30_OwnerOnly ==
  [][/\ (RepliesAtOnce /\ resp'.op \in OwnerOps /\ resp'.id \in AttemptIds
           /\ resp'.user # Owner(resp'.id)) =>
          /\ resp'.code = 403 /\ resp'.message = "Permission denied"
          /\ attempts' = attempts
     /\ \A r \in Taken :
          (sent' # sent /\ r.op \in OwnerOps) => r.user = Owner(r.id)
     /\ \A id \in AttemptIds :
          attempts'[id] # attempts[id] =>
            /\ RepliesLater
            /\ resp'.op \in OwnerOps /\ resp'.id = id /\ resp'.user = Owner(id)]_vars

\* another user's SubmitAnswer was answered Forbidden, and the attempt is
\* in-progress past its deadline
C30_Witness ==
  /\ resp.op = "answers" /\ resp.code = 403
  /\ resp.id \in AttemptIds /\ resp.user # Owner(resp.id)
  /\ attempts[resp.id].status = "in-progress"
  /\ now > TimeLimit(attempts[resp.id].startTime)

Terminal(id) == id \in AttemptIds /\ attempts[id].status # "in-progress"

\* a SubmitAnswer or FinishAttempt of the owner that read the clock after the
\* deadline of attempt id, found the attempt in-progress and has not saved yet
LateCall(id) ==
  /\ id \in AttemptIds
  /\ \E r \in BagToSet(inflight) :
       /\ r.op \in {"answers", "submit"}
       /\ r.id = id /\ r.user = Owner(id)
       /\ \/ r.op = "submit" /\ r.endTime > TimeLimit(attempts[id].startTime)
          \/ r.op = "answers" /\ r.pc = "saveTimeout"
          \/ /\ r.op = "answers" /\ r.pc = "save"
             /\ r.updated.timeSpent * 1000 > assessment.duration * 60000

\* C29: timeout is detected lazily: an attempt leaves in-progress only in the
\* save of a SubmitAnswer or FinishAttempt of its owner, never because time
\* passes; a SubmitAnswer or FinishAttempt of the owner after the deadline
\* leads to a terminal status; and an attempt that is terminal stays terminal
C29_LazyTimeout ==
  /\ [][\A id \in AttemptIds :
          /\ (attempts[id].status = "in-progress"
                /\ attempts'[id].status # "in-progress") =>
               /\ RepliesLater
               /\ resp'.op \in {"answers", "submit"}
               /\ resp'.id = id /\ resp'.user = Owner(id)
          /\ Terminal(id) => Terminal(id)']_vars
  /\ \A id \in 1..MaxRequests : LateCall(id) ~> Terminal(id)

\* an attempt left in-progress past its deadline was finalized by the owner's
\* FinishAttempt, which came after the deadline
C29_Witness ==
  \E id \in AttemptIds :
    /\ attempts[id].status = "completed"
    /\ attempts[id].endTime > TimeLimit(attempts[id].startTime)
    /\ resp.op = "submit" /\ resp.id = id /\ resp.code = 200
====
